---- MODULE Spec2Model ----
(***************************************************************************)
(* ClipboardWatcher: the clipboard polling thread (lib.rs), the tauri      *)
(* commands that share the database behind one Mutex (lib.rs) and the      *)
(* SQLite-backed history store (db.rs).                                    *)
(*                                                                         *)
(* Two specifications:                                                     *)
(*   SpecStore  the ClipboardDatabase API called directly on an in-memory  *)
(*              database, as db.rs's tests module does;                    *)
(*   Spec       the running application: the polling thread, the command   *)
(*              handlers and the environment (user copies, store I/O).     *)
(***************************************************************************)
EXTENDS Integers, Sequences, FiniteSets, TLC

\* ------------------------------------------------------------------ bounds
\* The number of rows ever inserted (AUTOINCREMENT ids run 1..MaxId).
MaxId == 3
\* The clock: created_at / timestamp values run 1..MaxTime.
MaxTime == 2
\* The largest LIMIT passed to get_recent_entries.
MaxLimit == 2
\* The application's clock runs 1..MaxTick: the polling thread makes MaxTick polls.
MaxTick == 3
\* The number of times the user copies something.
MaxCopies == 2

\* calculate_fzf_score and calculate_bonus_score are called on texts of at most
\* MaxTextLen characters, calculate_fzf_score with queries of at most MaxQueryLen.
MaxTextLen == 3
MaxQueryLen == 2

Texts == {"a", "b"}
ImagePaths == {"p.png"}
Times == 1..MaxTime

\* ------------------------------------------------------- Option and Result
\* Option<T>: None is the empty tuple, Some(x) the one-element tuple.
None == <<>>
Some(x) == <<x>>

\* rusqlite::Result<T>
Ok(v) == [ok |-> TRUE, val |-> v, err |-> ""]
Err(e) == [ok |-> FALSE, val |-> <<>>, err |-> e]

\* ---------------------------------------------------------- SQLite values
\* A column value with its SQLite storage class.  A TEXT value that holds a
\* created_at timestamp is represented by its rank in string order (the
\* strings chrono and the epoch-seconds counter print sort as the instants
\* do), any other TEXT value by the string itself.
SqlNull == [t |-> "Null", v |-> 0]
SqlInteger(i) == [t |-> "Integer", v |-> i]
SqlText(s) == [t |-> "Text", v |-> s]

\* ToSql for &Option<String>: None binds NULL.
ToSqlOpt(o) == IF o = None THEN SqlNull ELSE SqlText(o[1])

\* row.get::<_, i64>(idx)
get_i64(c) == IF c.t = "Integer" THEN Ok(c.v) ELSE Err("InvalidColumnType")
\* row.get::<_, String>(idx)
get_String(c) == IF c.t = "Text" THEN Ok(c.v) ELSE Err("InvalidColumnType")
\* row.get::<_, Option<i64>>(idx)
get_OptI64(c) ==
    IF c.t = "Null" THEN Ok(None)
    ELSE IF c.t = "Integer" THEN Ok(Some(c.v)) ELSE Err("InvalidColumnType")
\* row.get::<_, Option<String>>(idx)
get_OptString(c) ==
    IF c.t = "Null" THEN Ok(None)
    ELSE IF c.t = "Text" THEN Ok(Some(c.v)) ELSE Err("InvalidColumnType")

\* ------------------------------------------------------------ ClipboardEntry
ClipboardEntry(id, ct, img, txt, at) ==
    [id |-> id, content_type |-> ct, image_path |-> img, text_content |-> txt,
     created_at |-> at]

new_text_entry(text, now) == ClipboardEntry(None, "Text", None, Some(text), now)

new_image_entry(image_path, now) ==
    ClipboardEntry(None, "Image", Some(image_path), None, now)

\* ------------------------------------------------------- ClipboardDatabase
\* The database: the rows of clipboard_history and the table's entry in
\* sqlite_sequence (the largest rowid AUTOINCREMENT has ever handed out).
\* A row holds one SQLite value per column of the CREATE TABLE statement.
init_schema == [rows |-> {}, seq |-> 0]

Row(id, ct, img, txt, at) ==
    [id |-> SqlInteger(id), content_type |-> SqlText(ct), image_path |-> img,
     text_content |-> txt, created_at |-> SqlText(at)]

\* Mutant: a rowid column without AUTOINCREMENT takes one more than the
\* largest rowid now in the table.
NextRowid_MaxPlusOne(db) ==
    IF db.rows = {} THEN 1
    ELSE (CHOOSE m \in {r.id.v : r \in db.rows} : \A r \in db.rows : r.id.v <= m) + 1

\* AUTOINCREMENT: the new rowid is one more than the largest ever used.
NextRowid(db) == db.seq + 1

\* Mutant: the Image branch binds the path to the text_content column.
save_entry_ImageIntoText(db, e) ==
    LET id == NextRowid(db)
        row == IF e.content_type = "Text"
               THEN Row(id, "TEXT", SqlNull, ToSqlOpt(e.text_content), e.created_at)
               ELSE Row(id, "IMAGE", SqlNull, ToSqlOpt(e.image_path), e.created_at)
    IN [db |-> [rows |-> db.rows \cup {row}, seq |-> id], res |-> Ok(id)]

\* INSERT of the columns the entry's content_type selects; the column the
\* statement does not name is NULL.  Returns last_insert_rowid().
save_entry(db, e) ==
    LET id == NextRowid(db)
        row == IF e.content_type = "Text"
               THEN Row(id, "TEXT", SqlNull, ToSqlOpt(e.text_content), e.created_at)
               ELSE Row(id, "IMAGE", ToSqlOpt(e.image_path), SqlNull, e.created_at)
    IN [db |-> [rows |-> db.rows \cup {row}, seq |-> id], res |-> Ok(id)]

\* Mutant: rows with equal created_at come newest id first.
IndexBefore_TiesNewestFirst(r, s) ==
    \/ r.created_at.v > s.created_at.v
    \/ r.created_at.v = s.created_at.v /\ r.id.v > s.id.v

\* ORDER BY created_at DESC is answered by a scan of idx_created_at, whose
\* keys are (created_at DESC, rowid): r comes before s.
IndexBefore(r, s) ==
    \/ r.created_at.v > s.created_at.v
    \/ r.created_at.v = s.created_at.v /\ r.id.v < s.id.v

RECURSIVE IndexScan(_)
IndexScan(rows) ==
    IF rows = {} THEN <<>>
    ELSE LET first == CHOOSE r \in rows : \A s \in rows \ {r} : IndexBefore(r, s)
         IN <<first>> \o IndexScan(rows \ {first})

\* The result columns of "SELECT id, content_type, text_content, image_path,
\* created_at": column index i of the code is element i + 1.
SelectCols(r) == <<r.id, r.content_type, r.text_content, r.image_path, r.created_at>>

Limit(s, n) == SubSeq(s, 1, IF n < Len(s) THEN n ELSE Len(s))

\* Iterator<Result<T>>::collect::<Result<Vec<T>>>(): the first error, or all.
Collect(rs) ==
    IF \E i \in 1..Len(rs) : ~rs[i].ok
    THEN Err(rs[CHOOSE i \in 1..Len(rs) : ~rs[i].ok /\ \A j \in 1..(i - 1) : rs[j].ok].err)
    ELSE Ok([i \in 1..Len(rs) |-> rs[i].val])

\* The first error among the column reads of one row, in the code's order.
FirstErr(gets) ==
    IF \E i \in 1..Len(gets) : ~gets[i].ok
    THEN gets[CHOOSE i \in 1..Len(gets) : ~gets[i].ok /\ \A j \in 1..(i - 1) : gets[j].ok].err
    ELSE ""

ContentTypeOf(s) == IF s = "TEXT" THEN "Text" ELSE "Image"

\* The row closure of get_all_entries: id <- 0, content_type <- 1,
\* text_content <- 2, image_path <- 3, created_at <- 4.
MapRowAll(c) ==
    LET id == get_i64(c[1])
        cts == get_String(c[2])
        txt == get_OptString(c[3])
        img == get_OptString(c[4])
        at == get_String(c[5])
        e == FirstErr(<<id, cts, txt, img, at>>)
    IN IF e /= "" THEN Err(e)
       ELSE Ok(ClipboardEntry(Some(id.val), ContentTypeOf(cts.val), img.val, txt.val, at.val))

get_all_entries(db) ==
    LET scan == IndexScan(db.rows)
    IN Collect([i \in 1..Len(scan) |-> MapRowAll(SelectCols(scan[i]))])

\* The row closure of get_recent_entries reads the same five result columns
\* one index too low: content_type <- 0 (as String), id <- 0,
\* text_content <- 1, image_path <- 2, created_at <- 3.
MapRowRecent(c) ==
    LET cts == get_String(c[1])
        id == get_OptI64(c[1])
        txt == get_OptString(c[2])
        img == get_OptString(c[3])
        at == get_String(c[4])
        e == FirstErr(<<cts, id, txt, img, at>>)
    IN IF e /= "" THEN Err(e)
       ELSE Ok(ClipboardEntry(id.val, ContentTypeOf(cts.val), img.val, txt.val, at.val))

get_recent_entries(db, limit) ==
    LET scan == Limit(IndexScan(db.rows), limit)
    IN Collect([i \in 1..Len(scan) |-> MapRowRecent(SelectCols(scan[i]))])

\* Mutant: DELETE ... WHERE id <= ?1.
delete_entry_UpTo(db, id) ==
    [db |-> [db EXCEPT !.rows = {r \in db.rows : r.id.v > id}], res |-> Ok(id)]

\* DELETE ... WHERE id = ?1; execute's row count is discarded: Ok(_) => Ok(id).
delete_entry(db, id) ==
    [db |-> [db EXCEPT !.rows = {r \in db.rows : r.id.v /= id}], res |-> Ok(id)]

\* Mutant: DELETE FROM clipboard_history WHERE content_type = 'TEXT'.
clear_all_TextOnly(db) ==
    [db |-> [db EXCEPT !.rows = {r \in db.rows : r.content_type.v /= "TEXT"}],
     res |-> Ok(<<>>)]

\* DELETE FROM clipboard_history; sqlite_sequence keeps its value.
clear_all(db) == [db |-> [db EXCEPT !.rows = {}], res |-> Ok(<<>>)]

\* ------------------------------------------------------------------ fzf.rs
INITIAL_SCORE == 5
BOUNDARY_SCORE == 3
CAMEL_CASE_SCORE == 2
MATCH_SCORE == 10
GAP_SCORE == -2
NO_SCORE == -10000

\* A String is the sequence of its chars, a char a one-character string; the
\* strings are ASCII, so text.len() is the number of chars.
LowerChars == {"a", "b"}
UpperChars == {"A", "B"}
BoundaryChars == {"/", "_", "-", ".", " "}
OtherChars == {"1"}

\* char::is_lowercase, char::is_uppercase
is_lowercase(c) == c \in LowerChars
is_uppercase(c) == c \in UpperChars

\* char::to_ascii_lowercase
to_ascii_lowercase(c) == IF c = "A" THEN "a" ELSE IF c = "B" THEN "b" ELSE c

\* char::eq_ignore_ascii_case
eq_ignore_ascii_case(a, b) == to_ascii_lowercase(a) = to_ascii_lowercase(b)

\* Mutant: the first character gets no bonus of its own.
BonusAt_NoInitial(text, i) ==
    IF i = 1 THEN 0
    ELSE LET prev == text[i - 1]
             boundary == IF prev \in BoundaryChars THEN BOUNDARY_SCORE ELSE 0
         IN IF is_lowercase(prev) /\ is_uppercase(text[i]) THEN CAMEL_CASE_SCORE
            ELSE boundary

\* Mutant: '.' is missing from the boundary characters.
BonusAt_NoDot(text, i) ==
    IF i = 1 THEN INITIAL_SCORE
    ELSE LET prev == text[i - 1]
             boundary == IF prev \in BoundaryChars \ {"."} THEN BOUNDARY_SCORE ELSE 0
         IN IF is_lowercase(prev) /\ is_uppercase(text[i]) THEN CAMEL_CASE_SCORE
            ELSE boundary

\* One pass of calculate_bonus_score's loop, for the char at index i - 1:
\* the initial score at index 0; else the boundary score when the char before
\* is a boundary char, then overwritten by the camel-case score when the
\* char before is lowercase and this one uppercase; else the vector's 0.
BonusAt(text, i) ==
    IF i = 1 THEN INITIAL_SCORE
    ELSE LET prev == text[i - 1]
             boundary == IF prev \in BoundaryChars THEN BOUNDARY_SCORE ELSE 0
         IN IF is_lowercase(prev) /\ is_uppercase(text[i]) THEN CAMEL_CASE_SCORE
            ELSE boundary

calculate_bonus_score(text) == [i \in 1..Len(text) |-> BonusAt(text, i)]

\* Mutant: the penalty for a skipped char is forgotten.
GapStep_NoPenalty(best) == best

\* if current_best_score > NO_SCORE { current_best_score += GAP_SCORE; }
GapStep(best) == IF best > NO_SCORE THEN best + GAP_SCORE ELSE best

\* Mutant: the score carried from the row before is not added.
MatchScore_NoCarry(best, bonus) == bonus + MATCH_SCORE

\* current_best_score + bonus_score[j] + MATCH_SCORE
MatchScore(best, bonus) == best + bonus + MATCH_SCORE

\* current_best_score when the inner loop reaches the match test at column j
\* (index j - 1) of the row of query char i (index i - 1): 0 in the first
\* row; else the value left by column j - 1 (NO_SCORE at the row's start)
\* after the gap step, or prev_score[j - 1] when that is greater.
RECURSIVE BestAt(_, _, _)
BestAt(i, prev, j) ==
    IF i = 1 THEN 0
    ELSE LET carried == GapStep(IF j = 1 THEN NO_SCORE ELSE BestAt(i, prev, j - 1))
         IN IF j > 1 /\ prev[j - 1] > carried THEN prev[j - 1] ELSE carried

\* current_score at the end of the inner loop for query char i.
ScoreRow(text, bonus, q_char, i, prev) ==
    [j \in 1..Len(text) |->
        IF eq_ignore_ascii_case(q_char, text[j])
        THEN MatchScore(BestAt(i, prev, j), bonus[j])
        ELSE NO_SCORE]

\* The outer loop from query char i on, prev_score being prev.
RECURSIVE ScoreRows(_, _, _, _, _)
ScoreRows(text, bonus, query, i, prev) ==
    IF i > Len(query) THEN prev
    ELSE ScoreRows(text, bonus, query, i + 1, ScoreRow(text, bonus, query[i], i, prev))

calculate_fzf_score(text, query) ==
    ScoreRows(text, calculate_bonus_score(text), query, 1,
              [j \in 1..Len(text) |-> NO_SCORE])

\* The ids of the stored rows.
RowIds(d) == {r.id.v : r \in d.rows}

\* ------------------------------------------------------------------ state
VARIABLES
    db,          \* the ClipboardDatabase behind AppState.db
    ret,         \* the direct caller's last call, its arguments and its result
    issued,      \* every id a save_entry call has returned so far
    clipboard,   \* NSPasteboard's string content: None or Some(text)
    changeCount, \* NSPasteboard's changeCount
    storeOk,     \* whether SQLite statements succeed (disk, file, ...)
    now,         \* the system clock, in seconds
    wpc,         \* the polling thread's position
    last_event,  \* the polling thread's last_event: None or Some(ClipboardEvent)
    emitted,     \* the "clipboard-changed" events emitted, oldest first
    dbLock,      \* the holder of AppState.db's Mutex
    cpc,         \* the command handler's position
    creq,        \* the command being handled
    polled,      \* the change counts at the polling thread's last two reads
    fzf,         \* the last call of fzf.rs: its arguments and the vector returned
    last_tray_rect \* AppState.last_tray_rect: the Mutex's guard and the Option<Rect> in it

vars == <<db, ret, issued, clipboard, changeCount, storeOk, now, wpc, last_event, emitted,
          dbLock, cpc, creq, polled, fzf, last_tray_rect>>

appVars == <<clipboard, changeCount, storeOk, now, wpc, last_event, emitted, dbLock, cpc, creq,
             polled, fzf, last_tray_rect>>

NoEntry == ClipboardEntry(None, "Text", None, None, 0)

Ret(op, arg, entry, res) ==
    [op |-> op, arg |-> arg, entry |-> entry, ok |-> res.ok, err |-> res.err,
     id |-> IF res.ok /\ op = "save_entry" THEN res.val ELSE 0,
     entries |-> IF res.ok /\ op \in {"get_all_entries", "get_recent_entries"}
                 THEN res.val ELSE <<>>]

NoCall == Ret("none", 0, NoEntry, Ok(<<>>))

NoReq == [op |-> "none", arg |-> 0]

\* No read of the pasteboard yet: a count NSPasteboard never reports.
NoCount == -1

\* Mutex::new(None): no guard alive, no rect saved.
NoRect == [guard |-> "none", rect |-> None]

NoFzf == [op |-> "none", text |-> <<>>, query |-> <<>>, out |-> <<>>]

Init ==
    /\ db = init_schema
    /\ ret = NoCall
    /\ issued = {}
    /\ clipboard = None
    /\ changeCount = 0
    /\ storeOk = TRUE
    /\ now = 1
    /\ wpc = "poll"
    /\ last_event = None
    /\ emitted = <<>>
    /\ dbLock = "none"
    /\ cpc = "idle"
    /\ creq = NoReq
    /\ polled = <<NoCount, NoCount>>
    /\ fzf = NoFzf
    /\ last_tray_rect = NoRect

\* --------------------------------------- SpecStore: the API called directly
\* The entries a caller builds with the two constructors at some instant.
NewEntries ==
    {new_text_entry(t, at) : t \in Texts, at \in Times}
        \cup {new_image_entry(p, at) : p \in ImagePaths, at \in Times}

StoreSave(e) ==
    /\ db.seq < MaxId
    /\ LET r == save_entry(db, e)
       IN /\ db' = r.db
          /\ ret' = Ret("save_entry", 0, e, r.res)
          /\ issued' = IF r.res.ok THEN issued \cup {r.res.val} ELSE issued
    /\ UNCHANGED appVars

StoreGetAll ==
    /\ ret' = Ret("get_all_entries", 0, NoEntry, get_all_entries(db))
    /\ UNCHANGED <<db, issued>>
    /\ UNCHANGED appVars

StoreGetRecent(limit) ==
    /\ ret' = Ret("get_recent_entries", limit, NoEntry, get_recent_entries(db, limit))
    /\ UNCHANGED <<db, issued>>
    /\ UNCHANGED appVars

StoreDelete(id) ==
    /\ LET r == delete_entry(db, id)
       IN /\ db' = r.db
          /\ ret' = Ret("delete_entry", id, NoEntry, r.res)
    /\ UNCHANGED issued
    /\ UNCHANGED appVars

StoreClear ==
    /\ LET r == clear_all(db)
       IN /\ db' = r.db
          /\ ret' = Ret("clear_all", 0, NoEntry, r.res)
    /\ UNCHANGED issued
    /\ UNCHANGED appVars

NextStore ==
    \/ \E e \in NewEntries : StoreSave(e)
    \/ StoreGetAll
    \/ \E limit \in 0..MaxLimit : StoreGetRecent(limit)
    \/ \E id \in 1..(MaxId + 1) : StoreDelete(id)
    \/ StoreClear

SpecStore == Init /\ [][NextStore]_vars

\* --------------------------------------- SpecFzf: fzf.rs called directly
\* The strings of at most n chars over an alphabet.
StringsUpTo(alphabet, n) == UNION {[1..k -> alphabet] : k \in 0..n}

\* Texts and queries scored: letters of both cases and a boundary char.
ScoreChars == {"a", "b", "A", "_"}

BonusChars == LowerChars \cup UpperChars \cup BoundaryChars \cup OtherChars

\* A call about to be made: the arguments are chosen, nothing is computed.
FzfInput(text, query) ==
    [op |-> "input", text |-> text, query |-> query, out |-> <<>>]

\* The program before a call of fzf.rs, for every choice of the arguments.
InitFzf ==
    /\ db = init_schema
    /\ ret = NoCall
    /\ issued = {}
    /\ clipboard = None
    /\ changeCount = 0
    /\ storeOk = TRUE
    /\ now = 1
    /\ wpc = "poll"
    /\ last_event = None
    /\ emitted = <<>>
    /\ dbLock = "none"
    /\ cpc = "idle"
    /\ creq = NoReq
    /\ polled = <<NoCount, NoCount>>
    /\ last_tray_rect = NoRect
    /\ \/ \E text \in StringsUpTo(ScoreChars, MaxTextLen),
             query \in StringsUpTo(ScoreChars, MaxQueryLen) :
                fzf = FzfInput(text, query)
       \/ \E text \in StringsUpTo(BonusChars, MaxTextLen) :
                fzf = FzfInput(text, <<>>)

FzfScore ==
    /\ fzf.op = "input"
    /\ fzf' = [fzf EXCEPT !.op = "calculate_fzf_score",
                          !.out = calculate_fzf_score(fzf.text, fzf.query)]
    /\ UNCHANGED <<db, ret, issued, clipboard, changeCount, storeOk, now, wpc,
                   last_event, emitted, dbLock, cpc, creq, polled, last_tray_rect>>

FzfBonus ==
    /\ fzf.op = "input"
    /\ fzf' = [fzf EXCEPT !.op = "calculate_bonus_score",
                          !.out = calculate_bonus_score(fzf.text)]
    /\ UNCHANGED <<db, ret, issued, clipboard, changeCount, storeOk, now, wpc,
                   last_event, emitted, dbLock, cpc, creq, polled, last_tray_rect>>

NextFzf == FzfScore \/ FzfBonus

SpecFzf == InitFzf /\ [][NextFzf]_vars

\* ------------------------------------------------- Spec: the application
\* The user (or another program) puts something on the pasteboard; the
\* change count advances even when the content is what it was.
Copy(c) ==
    /\ UNCHANGED <<polled, fzf, last_tray_rect>>
    /\ changeCount < MaxCopies
    /\ clipboard' = c
    /\ changeCount' = changeCount + 1
    /\ UNCHANGED <<db, ret, issued, storeOk, now, wpc, last_event, emitted,
                   dbLock, cpc, creq>>

\* SQLite statements start to fail (disk full, file gone) or work again.
StoreBreaks ==
    /\ UNCHANGED <<polled, fzf, last_tray_rect>>
    /\ storeOk
    /\ storeOk' = FALSE
    /\ UNCHANGED <<db, ret, issued, clipboard, changeCount, now, wpc, last_event,
                   emitted, dbLock, cpc, creq>>

StoreRecovers ==
    /\ UNCHANGED <<polled, fzf, last_tray_rect>>
    /\ ~storeOk
    /\ storeOk' = TRUE
    /\ UNCHANGED <<db, ret, issued, clipboard, changeCount, now, wpc, last_event,
                   emitted, dbLock, cpc, creq>>

\* A statement on the connection: the call's result, or SQLite's failure.
Io(r) == IF storeOk THEN r ELSE [db |-> db, res |-> Err("SqliteFailure")]

\* lib.rs's get_clipboard_text() -> String over base's Option<String>: the
\* polling thread uses the result as a String; no string is the empty one.
get_clipboard_text == IF clipboard = None THEN "" ELSE clipboard[1]

\* ClipboardEvent::new
ClipboardEvent_new(text) == [text |-> text, timestamp |-> now]

\* save_clipboard_event hands the event to db.save_entry, which takes a
\* ClipboardEntry: the event's text as a Text entry created at its timestamp.
EntryOfEvent(ev) == ClipboardEntry(None, "Text", None, Some(ev.text), ev.timestamp)

\* The payload of a "clipboard-changed" event: the polling thread emits its
\* ClipboardEvent, load_clipboard_events_at_startup a stored ClipboardEntry.
EventPayload(ev) ==
    [from |-> "polling", id |-> None, text |-> Some(ev.text), image |-> None,
     at |-> ev.timestamp]

EntryPayload(e) ==
    [from |-> "startup", id |-> e.id, text |-> e.text_content, image |-> e.image_path,
     at |-> e.created_at]

\* Mutant: the text is looked up in the whole stored history.
SameAsLast_AnyStored(text) ==
    \/ last_event /= None /\ last_event[1].text = text
    \/ \E r \in db.rows : r.text_content = SqlText(text)

\* Mutant: dedup by change only, never by content.
SameAsLast_Never(text) == FALSE

\* Mutant: the events are compared whole (ClipboardEvent derives PartialEq),
\* timestamp included.
SameAsLast_WholeEvent(text) == last_event = Some(ClipboardEvent_new(text))

\* if let Some(ref last_event) = last_event { if last_event.text() == text
SameAsLast(text) == last_event /= None /\ last_event[1].text = text

\* One pass of the loop up to the emit: read the text; when it is the last
\* event's text, go to sleep, else make the new event the last one.
WPoll ==
    /\ wpc = "poll"
    /\ polled' = <<polled[2], changeCount>>
    /\ UNCHANGED <<fzf, last_tray_rect>>
    /\ LET text == get_clipboard_text
       IN IF SameAsLast(text)
          THEN /\ wpc' = "sleep"
               /\ UNCHANGED last_event
          ELSE /\ last_event' = Some(ClipboardEvent_new(text))
               /\ wpc' = "emit"
    /\ UNCHANGED <<db, ret, issued, clipboard, changeCount, storeOk, now, emitted,
                   dbLock, cpc, creq>>

\* app_handle.emit("clipboard-changed", last_event.clone().unwrap())
WEmit ==
    /\ UNCHANGED <<polled, fzf, last_tray_rect>>
    /\ wpc = "emit"
    /\ emitted' = Append(emitted, EventPayload(last_event[1]))
    /\ wpc' = "lock"
    /\ UNCHANGED <<db, ret, issued, clipboard, changeCount, storeOk, now, last_event,
                   dbLock, cpc, creq>>

\* Mutant: lock() returns at once, whoever holds the guard.
MutexFree_Always == TRUE

\* Mutex::lock() returns when no guard is alive.
MutexFree == dbLock = "none"

\* save_clipboard_event: state.db.lock()
WLock ==
    /\ UNCHANGED <<polled, fzf, last_tray_rect>>
    /\ wpc = "lock"
    /\ MutexFree
    /\ dbLock' = "polling"
    /\ wpc' = "save"
    /\ UNCHANGED <<db, ret, issued, clipboard, changeCount, storeOk, now, last_event,
                   emitted, cpc, creq>>

\* Mutant: the guard outlives save_clipboard_event, up to the end of the pass.
WSave_KeepsGuard ==
    /\ UNCHANGED <<polled, fzf, last_tray_rect>>
    /\ wpc = "save"
    /\ LET e == EntryOfEvent(last_event[1])
           r == Io(save_entry(db, e))
       IN /\ db' = r.db
          /\ issued' = IF r.res.ok THEN issued \cup {r.res.val} ELSE issued
          /\ wpc' = IF r.res.ok THEN "sleep" ELSE "panicked"
    /\ UNCHANGED <<ret, clipboard, changeCount, storeOk, now, last_event, emitted, cpc, creq,
                   dbLock>>

\* save_clipboard_event: db.save_entry, the guard dropped on return; then the
\* polling thread's unwrap() of the result: an Err panics the thread.
WSave ==
    /\ UNCHANGED <<polled, fzf, last_tray_rect>>
    /\ wpc = "save"
    /\ LET e == EntryOfEvent(last_event[1])
           r == Io(save_entry(db, e))
       IN /\ db' = r.db
          /\ issued' = IF r.res.ok THEN issued \cup {r.res.val} ELSE issued
          /\ wpc' = IF r.res.ok THEN "sleep" ELSE "panicked"
    /\ dbLock' = "none"
    /\ UNCHANGED <<ret, clipboard, changeCount, storeOk, now, last_event, emitted, cpc, creq>>

\* thread::sleep(Duration::from_secs(1)): a second passes.
WSleep ==
    /\ UNCHANGED <<polled, fzf, last_tray_rect>>
    /\ wpc = "sleep"
    /\ now < MaxTick
    /\ now' = now + 1
    /\ wpc' = "poll"
    /\ UNCHANGED <<db, ret, issued, clipboard, changeCount, storeOk, last_event,
                   emitted, dbLock, cpc, creq>>

\* The commands of the invoke handler that use the database.
Requests ==
    {[op |-> "get_recent_clipboard_entries", arg |-> n] : n \in {0, 1}}
        \cup {[op |-> "delete_clipboard_entry", arg |-> id] : id \in {1, 2}}
        \cup {[op |-> "clear_clipboard_history", arg |-> 0],
              [op |-> "load_clipboard_events_at_startup", arg |-> 0]}

\* The frontend loads the stored history once, when it starts.
Loaded == \E i \in 1..Len(emitted) : emitted[i].from = "startup"

\* The frontend invokes a command.
CmdInvoke(req) ==
    /\ UNCHANGED <<polled, fzf, last_tray_rect>>
    /\ cpc = "idle"
    /\ req.op = "load_clipboard_events_at_startup" => ~Loaded
    /\ creq' = req
    /\ cpc' = "lock"
    /\ UNCHANGED <<db, ret, issued, clipboard, changeCount, storeOk, now, wpc,
                   last_event, emitted, dbLock>>

\* state.db.lock() in the command
CmdLock ==
    /\ UNCHANGED <<polled, fzf, last_tray_rect>>
    /\ cpc = "lock"
    /\ MutexFree
    /\ dbLock' = "command"
    /\ cpc' = "run"
    /\ UNCHANGED <<db, ret, issued, clipboard, changeCount, storeOk, now, wpc,
                   last_event, emitted, creq>>

\* The command's database call and, for the startup load, its emits; the
\* guard is dropped when the command returns.  The command's result goes to
\* the frontend.
CmdRun ==
    /\ UNCHANGED <<polled, fzf, last_tray_rect>>
    /\ cpc = "run"
    /\ \/ /\ creq.op = "get_recent_clipboard_entries"
          /\ UNCHANGED <<db, emitted>>
       \/ /\ creq.op = "delete_clipboard_entry"
          /\ db' = Io(delete_entry(db, creq.arg)).db
          /\ UNCHANGED emitted
       \/ /\ creq.op = "clear_clipboard_history"
          /\ db' = Io(clear_all(db)).db
          /\ UNCHANGED emitted
       \/ /\ creq.op = "load_clipboard_events_at_startup"
          /\ LET r == Io([db |-> db, res |-> get_all_entries(db)]).res
             IN emitted' = IF r.ok
                           THEN emitted \o [i \in 1..Len(r.val) |-> EntryPayload(r.val[i])]
                           ELSE emitted
          /\ UNCHANGED db
    /\ dbLock' = "none"
    /\ cpc' = "idle"
    /\ creq' = NoReq
    /\ UNCHANGED <<ret, issued, clipboard, changeCount, storeOk, now, wpc, last_event>>

Next ==
    \/ \E c \in {None} \cup {Some(t) : t \in Texts} : Copy(c)
    \/ StoreBreaks
    \/ StoreRecovers
    \/ WPoll
    \/ WEmit
    \/ WLock
    \/ WSave
    \/ WSleep
    \/ \E req \in Requests : CmdInvoke(req)
    \/ CmdLock
    \/ CmdRun

Spec == Init /\ [][Next]_vars

\* ------------------------------ SpecLive: the tray handlers, and fairness
\* The handlers that use AppState.last_tray_rect; like the commands they run
\* on the main thread.
TrayHandlers == {"on_tray_icon_event", "on_menu_event"}

\* A left click on the tray icon, or the menu's "open": the handler takes
\* state.last_tray_rect.lock().
TrayLock(handler) ==
    /\ cpc = "idle"
    /\ last_tray_rect.guard = "none"
    /\ last_tray_rect' = [last_tray_rect EXCEPT !.guard = "main"]
    /\ creq' = [op |-> handler, arg |-> 0]
    /\ cpc' = "tray"
    /\ UNCHANGED <<db, ret, issued, clipboard, changeCount, storeOk, now, wpc,
                   last_event, emitted, dbLock, polled, fzf>>

\* Under the guard the click handler saves the icon's rect and the menu
\* handler reads the saved one to place the window; then the guard is dropped.
TrayUnlock ==
    /\ cpc = "tray"
    /\ last_tray_rect' =
          [guard |-> "none",
           rect |-> IF creq.op = "on_tray_icon_event" THEN Some("rect")
                    ELSE last_tray_rect.rect]
    /\ creq' = NoReq
    /\ cpc' = "idle"
    /\ UNCHANGED <<db, ret, issued, clipboard, changeCount, storeOk, now, wpc,
                   last_event, emitted, dbLock, polled, fzf>>

\* The requests the frontend makes while it runs: list, delete, clear.
RunningRequests == {r \in Requests : r.op /= "load_clipboard_events_at_startup"}

\* The threads that meet at the two Mutexes, with a user who copies one text.
NextLive ==
    \/ Copy(Some("a"))
    \/ StoreBreaks
    \/ StoreRecovers
    \/ WPoll
    \/ WEmit
    \/ WLock
    \/ WSave
    \/ WSleep
    \/ \E req \in RunningRequests : CmdInvoke(req)
    \/ CmdLock
    \/ CmdRun
    \/ \E handler \in TrayHandlers : TrayLock(handler)
    \/ TrayUnlock

\* A thread that holds a guard goes on to drop it; a command waiting for the
\* database's Mutex gets it once it is free often enough (the polling thread
\* sleeps a second outside the guard between two saves).
SpecLive ==
    /\ Init
    /\ [][NextLive]_vars
    /\ WF_vars(WSave)
    /\ WF_vars(TrayUnlock)
    /\ WF_vars(CmdRun)
    /\ SF_vars(CmdLock)

\* ------------------------------- SpecRestart: the application started again
\* The database file outlives the process: run() opens clipboard_history.db
\* as an earlier run left it, here with one text captured then.
PreviousRun == save_entry(init_schema, new_text_entry("a", 1)).db

\* The application at its start: the store of an earlier run, whatever is on
\* the pasteboard, and a polling thread with no last event.
InitRestart ==
    /\ db = PreviousRun
    /\ ret = NoCall
    /\ issued = RowIds(db)
    /\ clipboard \in {None} \cup {Some(t) : t \in Texts}
    /\ changeCount = 0
    /\ storeOk = TRUE
    /\ now = 1
    /\ wpc = "poll"
    /\ last_event = None
    /\ emitted = <<>>
    /\ dbLock = "none"
    /\ cpc = "idle"
    /\ creq = NoReq
    /\ polled = <<NoCount, NoCount>>
    /\ fzf = NoFzf
    /\ last_tray_rect = NoRect

SpecRestart == InitRestart /\ [][Next]_vars

\* ============================================================ store claims
\* (checked under SpecStore)

\* What a listing is expected to return for a stored row.
EntryOfRow(r) ==
    ClipboardEntry(Some(r.id.v),
                   IF r.content_type.v = "TEXT" THEN "Text" ELSE "Image",
                   IF r.image_path.t = "Null" THEN None ELSE Some(r.image_path.v),
                   IF r.text_content.t = "Null" THEN None ELSE Some(r.text_content.v),
                   r.created_at.v)

\* C4: delete_entry with an id that matches no stored row returns a NotFound
\* error, not success, and leaves the stored rows unchanged.
C4_DeleteMissingIsNotFound ==
    [][(ret'.op = "delete_entry" /\ ret'.arg \notin RowIds(db))
        => (~ret'.ok /\ ret'.err = "NotFound" /\ db'.rows = db.rows)]_vars

\* C5: delete_entry with the id of a stored row removes exactly that row:
\* the row count drops by one, get_all_entries no longer returns the id, and
\* every other entry is returned as before, in the same order.
C5_DeleteRemovesExactlyThatRow ==
    [][(ret'.op = "delete_entry" /\ ret'.arg \in RowIds(db))
        => LET before == get_all_entries(db)
               after == get_all_entries(db')
           IN /\ ret'.ok
              /\ Cardinality(db'.rows) = Cardinality(db.rows) - 1
              /\ before.ok /\ after.ok
              /\ \A i \in 1..Len(after.val) : after.val[i].id /= Some(ret'.arg)
              /\ after.val = SelectSeq(before.val, LAMBDA e : e.id /= Some(ret'.arg))]_vars

\* A delete of a stored id has just returned: one of the ids handed out is
\* gone, it is the one the call named, and another row is still stored.
C5_Witness ==
    /\ ret.op = "delete_entry" /\ ret.ok
    /\ ret.arg \in issued /\ ret.arg \notin RowIds(db)
    /\ Cardinality(db.rows) = Cardinality(issued) - 1
    /\ Cardinality(db.rows) >= 1

C7_RecentOneAfterSave ==
    [][(ret.op = "save_entry" /\ ret.ok /\ ret'.op = "get_recent_entries" /\ ret'.arg = 1)
        => (ret'.ok /\ ret'.entries = <<[ret.entry EXCEPT !.id = Some(ret.id)]>>)]_vars

\* C8: get_recent_entries(n) succeeds and returns the first min(n, row count)
\* elements of get_all_entries, same order, same fields.
C8_RecentIsPrefixOfAll ==
    ret.op = "get_recent_entries" =>
        /\ ret.ok
        /\ get_all_entries(db).ok
        /\ ret.entries = Limit(get_all_entries(db).val, ret.arg)

\* C9: every successful save_entry returns a positive id greater than every
\* id an earlier save_entry returned, whatever was deleted or cleared since.
C9_IdsStrictlyIncrease ==
    [][(ret'.op = "save_entry" /\ ret'.ok)
        => (ret'.id > 0 /\ \A i \in issued : ret'.id > i)]_vars

\* A save has returned id 3 into a store whose earlier rows are all gone.
C9_Witness ==
    /\ ret.op = "save_entry" /\ ret.ok /\ ret.id = 3
    /\ RowIds(db) = {3}
    /\ issued = {1, 2, 3}

\* C10: clear_all succeeds and leaves no row, whatever the store held,
\* an empty store included: get_all_entries then returns the empty list.
C10_ClearEmptiesStore ==
    [][(ret'.op = "clear_all")
        => /\ ret'.ok
           /\ db'.rows = {}
           /\ get_all_entries(db') = Ok(<<>>)
           /\ clear_all(db').db = db']_vars

\* clear_all has just returned on a store that held two rows.
C10_Witness ==
    /\ ret.op = "clear_all" /\ ret.ok
    /\ db.rows = {}
    /\ db.seq = 2

\* ====================================================== application claims
\* (checked under Spec)

\* The events the polling thread emitted, oldest first.
PollingEvents == SelectSeq(emitted, LAMBDA p : p.from = "polling")

\* C1: a pass of the polling loop that reads the text of the last captured
\* event appends nothing, emits nothing and keeps last_event, so the thread
\* never emits or stores the same text twice in a row.
C1_SameTextNotCapturedTwice ==
    /\ [][(wpc = "poll" /\ wpc' /= "poll"
             /\ last_event /= None /\ last_event[1].text = get_clipboard_text)
          => (wpc' = "sleep" /\ UNCHANGED <<db, issued, emitted, last_event>>)]_vars
    /\ [](\A i \in 1..(Len(PollingEvents) - 1) :
             PollingEvents[i].text /= PollingEvents[i + 1].text)
    /\ [](\A r, s \in db.rows :
             s.id.v = r.id.v + 1 => r.text_content /= s.text_content)

\* The thread captured "a" in its second pass, at change count 1, and went
\* to sleep in its third, at change count 2, on the same text: one row
\* carries "a".
C1_Witness ==
    /\ wpc = "sleep" /\ now = 3
    /\ last_event = Some([text |-> "a", timestamp |-> 2])
    /\ clipboard = Some("a") /\ changeCount = 2
    /\ polled = <<1, 2>>
    /\ Len(PollingEvents) = 2
    /\ Cardinality({r \in db.rows : r.text_content = SqlText("a")}) = 1

\* C2: a capture event is emitted only after its entry was appended: at any
\* moment the polling thread has emitted no more events than save_entry
\* calls have succeeded.
C2_EmitOnlyAfterAppend == Len(PollingEvents) <= Cardinality(issued)

\* C3: a failed append never ends the polling thread.
C3_WatcherSurvivesStoreFailure == wpc /= "panicked"

\* C11: at most one store operation executes at a time: the polling thread's
\* append and a command's database call never overlap, and each runs while
\* its thread holds the Mutex.
C11_OneStoreOperationAtATime ==
    /\ ~(wpc = "save" /\ cpc = "run")
    /\ wpc = "save" => dbLock = "polling"
    /\ cpc = "run" => dbLock = "command"

\* The polling thread is inside save_clipboard_event with the guard while a
\* command waits in lock().
C11_Witness == wpc = "save" /\ dbLock = "polling" /\ cpc = "lock"

\* C12: a pass of the polling loop made while the pasteboard's change count
\* is what it was at the pass before appends nothing, emits nothing, keeps
\* last_event and goes to sleep.
C12_SameCountNoWork ==
    [][(wpc = "poll" /\ wpc' /= "poll" /\ polled[2] = changeCount)
        => (wpc' = "sleep" /\ UNCHANGED <<db, issued, emitted, last_event>>)]_vars

\* The thread sleeps after a pass that read the change count of the pass
\* before it, the user having copied something before both.
C12_Witness ==
    /\ wpc = "sleep"
    /\ polled[1] = polled[2] /\ polled[1] >= 1
    /\ last_event /= None /\ last_event[1].timestamp < now

\* C13: a pass of the polling loop over a pasteboard that holds no text
\* creates no entry: nothing is appended or emitted, and the loop goes on.
C13_NoContentCreatesNoEntry ==
    [][(wpc = "poll" /\ wpc' /= "poll" /\ clipboard = None)
        => (wpc' = "sleep" /\ UNCHANGED <<db, issued, emitted, last_event>>)]_vars

\* C14: every stored row has exactly the payload column its content_type
\* selects: a TEXT row text_content and no image_path, an IMAGE row
\* image_path and no text_content.
C14_ExactlyOnePayload ==
    \A r \in db.rows :
        \/ /\ r.content_type.v = "TEXT"
           /\ r.text_content.t = "Text" /\ r.image_path.t = "Null"
        \/ /\ r.content_type.v = "IMAGE"
           /\ r.image_path.t = "Text" /\ r.text_content.t = "Null"

\* The store holds a text row and an image row.
C14_Witness ==
    /\ \E r \in db.rows : r.content_type.v = "TEXT"
    /\ \E r \in db.rows : r.content_type.v = "IMAGE"

\* ------------------------------------------------------- claims on fzf.rs
\* scores.iter().max().unwrap(): the score of a pair, for a non-empty row.
MaxScore(row) == CHOOSE x \in {row[j] : j \in DOMAIN row} :
                    \A j \in DOMAIN row : row[j] <= x

\* The increasing maps of the positions of s to positions of t.
Embeddings(s, t) ==
    {p \in [1..Len(s) -> 1..Len(t)] :
        \A k \in 1..Len(s) : \A l \in 1..Len(s) : k < l => p[k] < p[l]}

\* s is a subsequence of t other than t itself.
IsProperSubsequence(s, t) ==
    /\ s /= t
    /\ \E p \in Embeddings(s, t) : \A k \in 1..Len(s) : s[k] = t[p[k]]

\* The alignments of the whole query as a case-insensitive subsequence of text.
Alignments(text, query) ==
    IF query = <<>> THEN {}
    ELSE {p \in Embeddings(query, text) :
            \A k \in 1..Len(query) : eq_ignore_ascii_case(query[k], text[p[k]])}

\* An alignment that skips a text char between two consecutive matches.
HasGap(p) == \E k \in 1..(Len(p) - 1) : p[k + 1] > p[k] + 1

\* The total of the first k matches of an alignment: the match reward and the
\* position's bonus for each match, the gap penalty for each char skipped
\* between two consecutive matches.
RECURSIVE AlignmentTotal(_, _, _)
AlignmentTotal(bonus, p, k) ==
    IF k = 0 THEN 0
    ELSE AlignmentTotal(bonus, p, k - 1) + MATCH_SCORE + bonus[p[k]]
         + (IF k > 1 THEN GAP_SCORE * (p[k] - p[k - 1] - 1) ELSE 0)

\* The best total of the alignments ending exactly at position j, the
\* sentinel when there is none.
ReferenceScore(text, query, j) ==
    LET ending == {p \in Alignments(text, query) : p[Len(query)] = j}
        totals == {AlignmentTotal(calculate_bonus_score(text), p, Len(query)) :
                        p \in ending}
    IN IF ending = {} THEN NO_SCORE
       ELSE CHOOSE x \in totals : \A y \in totals : y <= x

Scored == fzf.op = "calculate_fzf_score"

\* C15: for a non-empty text T and a proper subsequence S of T, the score of T
\* against the query T (the maximum of the final row) is at least the score
\* of T against the query S.
C15_ExactMatchNeverBeaten ==
    (Scored /\ fzf.text /= <<>> /\ IsProperSubsequence(fzf.query, fzf.text))
        => MaxScore(calculate_fzf_score(fzf.text, fzf.text)) >= MaxScore(fzf.out)

C15_Witness ==
    /\ Scored
    /\ fzf.text = <<"a", "_", "b">>
    /\ fzf.query = <<"a", "b">>
    /\ MaxScore(fzf.out) > NO_SCORE

\* Some char of the query occurs nowhere in the text, case ignored.
LacksQueryChar(text, query) ==
    \E k \in 1..Len(query) :
        \A j \in 1..Len(text) : ~eq_ignore_ascii_case(query[k], text[j])

\* C16: when some char of the query Q occurs nowhere in the text T (case
\* ignored), every element of the row calculate_fzf_score(T, Q) returns is the
\* sentinel NO_SCORE.
C16_MissingCharGivesSentinelRow ==
    (Scored /\ LacksQueryChar(fzf.text, fzf.query))
        => \A j \in 1..Len(fzf.text) : fzf.out[j] = NO_SCORE

\* The query matches in the text, and only with a gap.
MatchesOnlyGapped(text, query) ==
    /\ Alignments(text, query) /= {}
    /\ \A p \in Alignments(text, query) : HasGap(p)

\* No position of the text after the first carries a bonus.
NoBonusAfterFirst(text) ==
    \A j \in 2..Len(text) : calculate_bonus_score(text)[j] = 0

\* C17 as stated: when the query Q matches in the text T only as a gapped
\* subsequence, the maximum of calculate_fzf_score(Q, Q) is strictly greater
\* than the maximum of calculate_fzf_score(T, Q).
C17_ContiguousOutranksGapped_AsStated ==
    (Scored /\ MatchesOnlyGapped(fzf.text, fzf.query))
        => MaxScore(calculate_fzf_score(fzf.query, fzf.query)) > MaxScore(fzf.out)

\* C17 amended: when the query Q matches in the text T only as a gapped
\* subsequence and no position of T after the first carries a boundary or
\* camel-case bonus, the maximum of calculate_fzf_score(Q, Q) is strictly
\* greater than the maximum of calculate_fzf_score(T, Q).
C17_ContiguousOutranksGapped ==
    (Scored /\ MatchesOnlyGapped(fzf.text, fzf.query) /\ NoBonusAfterFirst(fzf.text))
        => MaxScore(calculate_fzf_score(fzf.query, fzf.query)) > MaxScore(fzf.out)

C17_Witness ==
    /\ Scored
    /\ fzf.text = <<"a", "b", "a">>
    /\ fzf.query = <<"a", "a">>
    /\ MatchesOnlyGapped(fzf.text, fzf.query) /\ NoBonusAfterFirst(fzf.text)
    /\ MaxScore(fzf.out) = 2 * MATCH_SCORE + INITIAL_SCORE + GAP_SCORE

\* C18: for a one-char query c, a text T whose first char matches c and a
\* text T' whose first char does not match c, the maximum of
\* calculate_fzf_score(T, c) is strictly greater than the maximum of
\* calculate_fzf_score(T', c).
C18_InitialMatchScoresHighest ==
    (/\ Scored
     /\ Len(fzf.query) = 1
     /\ fzf.text /= <<>>
     /\ ~eq_ignore_ascii_case(fzf.query[1], fzf.text[1]))
        => \A t \in StringsUpTo(ScoreChars, MaxTextLen) :
              (t /= <<>> /\ eq_ignore_ascii_case(fzf.query[1], t[1]))
                  => MaxScore(calculate_fzf_score(t, fzf.query)) > MaxScore(fzf.out)

C18_Witness ==
    /\ Scored
    /\ fzf.query = <<"a">>
    /\ fzf.text = <<"_", "a">>
    /\ MaxScore(fzf.out) = MATCH_SCORE + BOUNDARY_SCORE

\* C19: element j of the row calculate_fzf_score(T, Q) returns is the best
\* total over the alignments of the whole query ending exactly at j (the
\* match reward and the position's bonus for each match, the gap penalty for
\* each char skipped between two consecutive matches), and the sentinel
\* NO_SCORE exactly when there is no such alignment.
C19_RowIsBestAlignment ==
    Scored => \A j \in 1..Len(fzf.text) :
                 fzf.out[j] = ReferenceScore(fzf.text, fzf.query, j)

\* The claim's table: the initial bonus at the first position; later, the
\* camel-case bonus for an uppercase char after a lowercase one, else the
\* boundary bonus after a boundary char, else 0.
BonusTable(text, i) ==
    IF i = 1 THEN INITIAL_SCORE
    ELSE IF text[i] \in UpperChars /\ text[i - 1] \in LowerChars THEN CAMEL_CASE_SCORE
    ELSE IF text[i - 1] \in {"/", "_", "-", ".", " "} THEN BOUNDARY_SCORE
    ELSE 0

\* C20: calculate_bonus_score gives each position of the text exactly one
\* bonus: the initial bonus at position 0; the boundary bonus after one of
\* '/', '_', '-', '.', space; the camel-case bonus for an uppercase char after
\* a lowercase one, which wins when both apply; 0 everywhere else.
C20_BonusTable ==
    fzf.op = "calculate_bonus_score"
        => /\ DOMAIN fzf.out = 1..Len(fzf.text)
           /\ \A i \in 1..Len(fzf.text) : fzf.out[i] = BonusTable(fzf.text, i)

C20_Witness ==
    /\ fzf.op = "calculate_bonus_score"
    /\ fzf.text = <<".", "a", "A">>
    /\ fzf.out = <<INITIAL_SCORE, BOUNDARY_SCORE, CAMEL_CASE_SCORE>>

\* ------------------------------------------- claims on the store's frame
\* (checked under SpecStore)

\* A step keeps every stored row as it is, but for the row a delete names and
\* the rows a clear removes, and puts no other row under a stored id.
RowsKept ==
    /\ \A r \in db.rows :
          \/ r \in db'.rows
          \/ ret'.op = "delete_entry" /\ ret'.arg = r.id.v
          \/ ret'.op = "clear_all"
    /\ \A r \in db'.rows : r.id.v \in RowIds(db) => r \in db.rows

\* A listing succeeds and returns stored rows as they are stored: all of them
\* for get_all_entries, as many as the limit allows for get_recent_entries.
ListsShowRows ==
    ret'.op \in {"get_all_entries", "get_recent_entries"} =>
        /\ ret'.ok
        /\ \A i \in 1..Len(ret'.entries) :
              \E r \in db.rows : ret'.entries[i] = EntryOfRow(r)
        /\ Len(ret'.entries) =
              IF ret'.op = "get_recent_entries" /\ ret'.arg < Cardinality(db.rows)
              THEN ret'.arg ELSE Cardinality(db.rows)

\* The part of C21 about the stored rows alone: save_entry, get_all_entries,
\* get_recent_entries and a delete_entry of another id leave every stored row
\* as it was saved.
StoredRowsNeverChange == [][RowsKept]_vars

\* C21: a persisted entry is immutable: from the save that created the row to
\* the delete or clear that removes it, every list operation returns the row
\* with the same content_type, payload and created_at, and save, list_all,
\* list_recent and a delete of another id never change or remove a stored row.
C21_PersistedEntriesImmutable == [][RowsKept /\ ListsShowRows]_vars

\* ------------------------------------------- claims on a restarted watcher
\* (checked under SpecRestart)

\* The stored rows that hold a text.
RowsWithText(d, text) == {r \in d.rows : r.text_content = SqlText(text)}

\* A poll that reads a text other than the last event's (or the first poll of
\* the thread) captures it, whatever is stored.
PollCapturesUnlessLast ==
    (/\ wpc = "poll" /\ wpc' /= "poll"
     /\ (last_event = None \/ last_event[1].text /= get_clipboard_text))
        => /\ wpc' = "emit"
           /\ last_event' = Some(ClipboardEvent_new(get_clipboard_text))

\* The save of a captured event, when SQLite works, adds one row holding the
\* event's text, next to any row that already holds it.
SaveAddsRow ==
    (wpc = "save" /\ wpc' /= "save" /\ storeOk)
        => /\ db.rows \subseteq db'.rows
           /\ Cardinality(RowsWithText(db', last_event[1].text))
                = Cardinality(RowsWithText(db, last_event[1].text)) + 1

\* C22: the polling thread compares a text with the last captured one only,
\* never with the stored history: for the pasteboard sequence A, B, A it
\* stores three rows, and the first pass of a freshly started thread stores
\* the pasteboard's text even when a row with that text is already stored.
C22_DedupAgainstLastOnly == [][PollCapturesUnlessLast /\ SaveAddsRow]_vars

\* A row with "a" was stored by an earlier run; this run stored "a" again at
\* its first pass, then "b", then "a" once more.
C22_Witness ==
    /\ wpc = "sleep"
    /\ Cardinality(db.rows) = 4
    /\ \A r \in db.rows :
          r.text_content = SqlText(IF r.id.v = 3 THEN "b" ELSE "a")
    /\ \E r \in db.rows : r.id.v = 1 /\ r.created_at.v = 1
    /\ \E r \in db.rows : r.id.v = 2 /\ r.created_at.v = 1
    /\ RowIds(db) = 1..4

\* ------------------------------------------------------ claims on locking
\* (checked under SpecLive)

\* The polling thread holds the database's guard only in its save; a handler
\* that holds the tray rect's guard holds no database guard.
GuardsHeldNarrowly ==
    /\ dbLock = "polling" => wpc = "save"
    /\ wpc \in {"sleep", "emit", "poll", "panicked"} => dbLock /= "polling"
    /\ last_tray_rect.guard /= "none" => (cpc = "tray" /\ dbLock /= "command")

\* The database's guard is taken only when nobody holds it, and by the main
\* thread only when it does not hold the tray rect's guard.
GuardTakenWhenFree ==
    (dbLock' /= dbLock /\ dbLock' /= "none")
        => /\ dbLock = "none"
           /\ dbLock' = "command" =>
                (last_tray_rect.guard = "none" /\ last_tray_rect'.guard = "none")

SameCapture(p, q) == p.text = q.text /\ p.at = q.at /\ p.image = q.image

\* A payload announces a stored row.
Announces(p, r) ==
    /\ p.text = (IF r.text_content.t = "Null" THEN None ELSE Some(r.text_content.v))
    /\ p.at = r.created_at.v

\* C24: whatever the interleaving of the polling thread and the startup load,
\* every captured entry is delivered on "clipboard-changed" at most once (an
\* entry the polling thread announced is not announced again by the replay of
\* the stored history), and every entry is delivered by one of the two.
C24_DeliveredExactlyOnce ==
    /\ \A i \in 1..Len(emitted) : \A j \in 1..Len(emitted) :
          i < j => ~SameCapture(emitted[i], emitted[j])
    /\ \A r \in db.rows : \E i \in 1..Len(emitted) : Announces(emitted[i], r)

====
